---- MODULE Spec2Model ----
(***************************************************************************)
(* The sample-metadata pulldown of microsetta_admin/metadata_util.py:      *)
(* retrieve_metadata and its helpers, and drop_private_columns.            *)
(*                                                                         *)
(* A Python str is a sequence of one-character strings, so that lower(),   *)
(* startswith(), replace(), strip() and re.sub() are computed character by *)
(* character.  A pandas.Series is a name with a sequence of <<label,       *)
(* value>> items; a pandas.DataFrame is a sequence of row names (index), a *)
(* set of column labels and a cell table; a null cell is NaN.              *)
(*                                                                         *)
(* The remote API is the environment: every GET answers with a status      *)
(* drawn from StatusCodes and, for a sample, a payload drawn from          *)
(* SampleChoices; a template has one structure per id (SurveyTemplates).   *)
(* Payloads are well typed (a list answer exactly for the multi fields of  *)
(* the template, selections among the enumerated values, no label twice in *)
(* one sample), so the flattener's assert / KeyError / AttributeError      *)
(* paths are outside the model.                                            *)
(***************************************************************************)
EXTENDS Integers, Sequences, FiniteSets, TLC

\* ---------------------------------------------------------------- bounds
\* longest identifier batch handed to retrieve_metadata
MaxBatch == 3

\* ---------------------------------------------------------------- python str
UpperCase == <<"A","B","C","D","E","F","G","H","I","J","K","L","M",
               "N","O","P","Q","R","S","T","U","V","W","X","Y","Z">>
LowerCase == <<"a","b","c","d","e","f","g","h","i","j","k","l","m",
               "n","o","p","q","r","s","t","u","v","w","x","y","z">>
Digits == {"0","1","2","3","4","5","6","7","8","9"}

Range(s) == {s[i] : i \in DOMAIN s}

\* one character of str.lower()
LowerChar(c) ==
    IF \E i \in DOMAIN UpperCase : UpperCase[i] = c
    THEN LowerCase[CHOOSE i \in DOMAIN UpperCase : UpperCase[i] = c]
    ELSE c

\* str.lower()
lower(s) == [i \in DOMAIN s |-> LowerChar(s[i])]

\* str.startswith(prefix)
startswith(s, prefix) ==
    Len(s) >= Len(prefix) /\ SubSeq(s, 1, Len(prefix)) = prefix

\* str.replace(old, new) for one-character old and new
replace(s, old, new) == [i \in DOMAIN s |-> IF s[i] = old THEN new ELSE s[i]]

\* str.strip(chars): drop leading and trailing characters that are in chars
RECURSIVE lstrip(_, _)
lstrip(s, chars) ==
    IF s # <<>> /\ Head(s) \in chars THEN lstrip(Tail(s), chars) ELSE s

RECURSIVE rstrip(_, _)
rstrip(s, chars) ==
    IF s # <<>> /\ s[Len(s)] \in chars
    THEN rstrip(SubSeq(s, 1, Len(s) - 1), chars)
    ELSE s

strip(s, chars) == rstrip(lstrip(s, chars), chars)

\* the characters the pattern [^0-9a-zA-Z_]+ keeps
WordChars == Digits \cup Range(UpperCase) \cup Range(LowerCase) \cup {"_"}

\* re.sub('[^0-9a-zA-Z_]+', '', s)
re_sub(s) == SelectSeq(s, LAMBDA c : c \in WordChars)

\* Python None
None == [none |-> TRUE]

\* a null cell of a DataFrame (and a None value of the payload); no str equals it
NaN == <<"<NaN>">>

\* ---------------------------------------------------------------- constants
TEMPLATES_TO_IGNORE == {10001}

EBI_REMOVE == <<
    <<"A","B","O","U","T","_","Y","O","U","R","S","E","L","F","_","T","E","X","T">>,
    <<"A","N","T","I","B","I","O","T","I","C","_","C","O","N","D","I","T","I","O","N">>,
    <<"A","N","T","I","B","I","O","T","I","C","_","M","E","D">>,
    <<"B","I","R","T","H","_","M","O","N","T","H">>,
    <<"C","A","T","_","C","O","N","T","A","C","T">>,
    <<"C","A","T","_","L","O","C","A","T","I","O","N">>,
    <<"C","O","N","D","I","T","I","O","N","S","_","M","E","D","I","C","A","T","I","O","N">>,
    <<"D","I","E","T","_","R","E","S","T","R","I","C","T","I","O","N","S","_","L","I","S","T">>,
    <<"D","O","G","_","C","O","N","T","A","C","T">>,
    <<"D","O","G","_","L","O","C","A","T","I","O","N">>,
    <<"G","E","N","D","E","R">>,
    <<"M","E","D","I","C","A","T","I","O","N","_","L","I","S","T">>,
    <<"O","T","H","E","R","_","C","O","N","D","I","T","I","O","N","S","_","L","I","S","T">>,
    <<"P","R","E","G","N","A","N","T","_","D","U","E","_","D","A","T","E">>,
    <<"R","A","C","E","_","O","T","H","E","R">>,
    <<"R","E","L","A","T","I","O","N","S","H","I","P","S","_","W","I","T","H","_","O","T","H","E","R","S","_","I","N","_","S","T","U","D","Y">>,
    <<"S","P","E","C","I","A","L","_","R","E","S","T","R","I","C","T","I","O","N","S">>,
    <<"S","U","P","P","L","E","M","E","N","T","S">>,
    <<"T","R","A","V","E","L","_","L","O","C","A","T","I","O","N","S","_","L","I","S","T">>,
    <<"Z","I","P","_","C","O","D","E">>,
    <<"W","I","L","L","I","N","G","_","T","O","_","B","E","_","C","O","N","T","A","C","T","E","D">>,
    <<"p","e","t","s","_","o","t","h","e","r","_","f","r","e","e","t","e","x","t">> >>

\* the prefix of the personal microbiome survey's fields
PM_PREFIX == <<"p","m","_">>

\* the characters str.strip('[]"') removes
STRIP_CHARS == {"[", "]", "\""}

STR_TRUE == <<"t","r","u","e">>
STR_FALSE == <<"f","a","l","s","e">>
MISSING == <<"M","i","s","s","i","n","g",":"," ","n","o","t"," ","p","r","o","v","i","d","e","d">>
EMPTY_STR == <<>>

HOST_SUBJECT_ID == <<"H","O","S","T","_","S","U","B","J","E","C","T","_","I","D">>
COLLECTION_TIMESTAMP == <<"C","O","L","L","E","C","T","I","O","N","_","T","I","M","E","S","T","A","M","P">>

\* site -> invariant items of a human sample (metadata_constants)
HUMAN_SITE_INVARIANTS ==
    [site \in {"Stool"} |-> << <<<<"H","O","S","T","_","C","O","M","M","O","N","_","N","A","M","E">>, <<"h","u","m","a","n">>>> >>]

\* ---------------------------------------------------------------- environment
\* what APIRequest.get may answer
StatusCodes == {200, 404, 500}

Barcodes == {"b1", "b2"}

\* the identifier batches a caller may pass
RECURSIVE SeqsUpTo(_, _)
SeqsUpTo(S, n) ==
    IF n = 0 THEN {<<>>}
    ELSE LET shorter == SeqsUpTo(S, n - 1)
         IN  shorter \cup {Append(s, x) : s \in shorter, x \in S}

Batches == SeqsUpTo(Barcodes, MaxBatch)

Field(id, shortname, multi, values) ==
    [id |-> id, shortname |-> shortname, multi |-> multi, values |-> values]

\* the survey template structures the API serves, by template id
SurveyTemplates ==
    (1 :> [survey_template_text |-> [groups |-> <<
             [fields |-> << Field(1, <<"A","L","C","O","H","O","L","_","T","Y","P","E","S">>, TRUE,
                                  << <<"b","e","e","r">>, <<"r","e","d"," ","w","i","n","e">> >>),
                            Field(2, <<"Z","i","p","_","C","o","d","e">>, FALSE, <<>>) >>],
             [fields |-> << Field(3, <<"B","L","O","O","D","_","T","Y","P","E">>, TRUE,
                                  << <<"A","+">>, <<"A","-">>, <<"A">>, <<"O">> >>) >>] >>]])
    @@
    (2 :> [survey_template_text |-> [groups |-> <<
             [fields |-> << Field(4, <<"P","M","_","D","I","E","T">>, FALSE, <<>>),
                            Field(5, <<"P","E","T","S">>, TRUE, << <<"d","o","g">> >>),
                            Field(6, <<"N","O","T","E","S">>, FALSE, <<>>) >>] >>]])
    @@
    (10001 :> [survey_template_text |-> [groups |-> <<>>]])

TemplateIds == DOMAIN SurveyTemplates

\* one item of a submission's response: question id -> (shortname, answer)
Q(qid, shortname, answer) == <<qid, shortname, answer>>

Submission(template, response) == [template |-> template, response |-> response]

\* the per-sample payloads the API serves (sample_barcode is set by the fetch)
SampleChoices == <<
    \* a human stool sample with the primary survey
    [host_subject_id |-> <<"h","1">>,
     account |-> [id |-> "acct1"],
     source |-> [id |-> "src1", source_type |-> "human"],
     sample |-> [datetime_collected |-> <<"2","0","2","0","-","0","1","-","0","1">>, site |-> "Stool"],
     survey_answers |-> <<
        Submission(1, << Q(1, <<"A","L","C","O","H","O","L","_","T","Y","P","E","S">>, << <<"b","e","e","r">> >>),
                         Q(2, <<"Z","i","p","_","C","o","d","e">>, <<"[","\"","9","2","\"","]">>),
                         Q(3, <<"B","L","O","O","D","_","T","Y","P","E">>, << <<"A","+">> >>) >>) >>],
    \* an animal sample with the second survey and the ignored one
    [host_subject_id |-> <<"h","2">>,
     account |-> [id |-> "acct2"],
     source |-> [id |-> "src2", source_type |-> "animal"],
     sample |-> [datetime_collected |-> <<"2","0","2","0","-","0","2","-","0","2">>, site |-> "Fur"],
     survey_answers |-> <<
        Submission(2, << Q(4, <<"P","M","_","D","I","E","T">>, <<"[","\"","v","e","g","\"","]">>),
                         Q(5, <<"P","E","T","S">>, <<>>),
                         Q(6, <<"N","O","T","E","S">>, <<"[","\"","\"","]">>) >>),
        Submission(10001, << Q(9, <<"V","I","O","S","C","R","E","E","N">>, <<"[","\"","d","o","n","e","\"","]">>) >>) >>],
    \* a human sample that holds the primary survey twice
    [host_subject_id |-> <<"h","3">>,
     account |-> [id |-> "acct3"],
     source |-> [id |-> "src3", source_type |-> "human"],
     sample |-> [datetime_collected |-> <<"2","0","2","0","-","0","3","-","0","3">>, site |-> "Stool"],
     survey_answers |-> <<
        Submission(1, << Q(1, <<"A","L","C","O","H","O","L","_","T","Y","P","E","S">>, << <<"r","e","d"," ","w","i","n","e">> >>),
                         Q(3, <<"B","L","O","O","D","_","T","Y","P","E">>, << <<"O">> >>) >>),
        Submission(1, << Q(1, <<"A","L","C","O","H","O","L","_","T","Y","P","E","S">>, << <<"b","e","e","r">> >>),
                         Q(2, <<"Z","i","p","_","C","o","d","e">>, <<"[","\"","1","1","\"","]">>),
                         Q(3, <<"B","L","O","O","D","_","T","Y","P","E">>, << <<"A","-">> >>) >>) >>],
    \* an environmental sample without surveys and without a subject id
    [host_subject_id |-> NaN,
     account |-> [id |-> "acct4"],
     source |-> [id |-> "src4", source_type |-> "environmental"],
     sample |-> [datetime_collected |-> <<"2","0","2","0","-","0","4","-","0","4">>,
                 source |-> [description |-> "soil"]],
     survey_answers |-> <<>>],
    \* an animal sample with both surveys, second survey first
    [host_subject_id |-> <<"h","5">>,
     account |-> [id |-> "acct5"],
     source |-> [id |-> "src5", source_type |-> "animal"],
     sample |-> [datetime_collected |-> <<"2","0","2","0","-","0","5","-","0","5">>, site |-> "Fur"],
     survey_answers |-> <<
        Submission(2, << Q(5, <<"P","E","T","S">>, << <<"d","o","g">> >>),
                         Q(6, <<"N","O","T","E","S">>, <<"p","l","a","i","n">>) >>),
        Submission(1, << Q(3, <<"B","L","O","O","D","_","T","Y","P","E">>, << <<"A","-">> >>),
                         Q(1, <<"A","L","C","O","H","O","L","_","T","Y","P","E","S">>, <<>>) >>) >>] >>

\* ---------------------------------------------------------------- DataFrame
\* pd.DataFrame()
EmptyFrame == [index |-> <<>>, columns |-> {}, at |-> <<>>]

Labels(series) == {series.items[i][1] : i \in DOMAIN series.items}

\* the value a Series holds under label, NaN when it has none
ValueOf(series, label) ==
    IF label \in Labels(series)
    THEN LET i == CHOOSE j \in DOMAIN series.items : series.items[j][1] = label
         IN  series.items[i][2]
    ELSE NaN

\* pd.DataFrame(list of Series): one row per Series, the columns are the union
\* of their labels, a label a Series lacks is a null cell
DataFrame(transformed) ==
    LET columns == UNION {Labels(transformed[i]) : i \in DOMAIN transformed}
        names   == {transformed[i].name : i \in DOMAIN transformed}
        row(n)  == transformed[CHOOSE i \in DOMAIN transformed :
                                   transformed[i].name = n]
    IN  [index   |-> [i \in DOMAIN transformed |-> transformed[i].name],
         columns |-> columns,
         at      |-> [n \in names |-> [c \in columns |-> ValueOf(row(n), c)]]]

\* df.drop(columns=to_drop)
DropColumns(df, to_drop) ==
    [index   |-> df.index,
     columns |-> df.columns \ to_drop,
     at      |-> [n \in Range(df.index) |->
                    [c \in df.columns \ to_drop |-> df.at[n][c]]]]

\* ---------------------------------------------------------------- helpers
\* a redaction that compares the denylist without lower-casing the column
drop_private_columns_cased(df) ==
    LET pm_remove == {lower(c) : c \in {d \in df.columns :
                                          startswith(lower(d), PM_PREFIX)}}
        remove    == pm_remove \cup Range(EBI_REMOVE)
        to_drop   == {c \in df.columns : c \in remove}
    IN  DropColumns(df, to_drop)

drop_private_columns(df) ==
    LET pm_remove == {lower(c) : c \in {d \in df.columns :
                                          startswith(lower(d), PM_PREFIX)}}
        remove    == pm_remove \cup {lower(c) : c \in Range(EBI_REMOVE)}
        to_drop   == {c \in df.columns : lower(c) \in remove}
    IN  DropColumns(df, to_drop)

\* Counter(barcodes)[barcode]
Counter(barcodes, barcode) ==
    Cardinality({i \in DOMAIN barcodes : barcodes[i] = barcode})

\* a duplicate check that reports every barcode it has seen
_find_duplicates_seen(barcodes) ==
    LET dups == {b \in Range(barcodes) : Counter(barcodes, b) > 0}
    IN  <<dups,
          IF Cardinality(dups) > 0
          THEN [barcode |-> dups, error |-> "Duplicated barcodes in input"]
          ELSE None>>

\* returns <<dups, error>>; list(dups) has no defined order and is kept a set
_find_duplicates(barcodes) ==
    LET dups == {b \in Range(barcodes) : Counter(barcodes, b) > 1}
    IN  <<dups,
          IF Cardinality(dups) > 0
          THEN [barcode |-> dups, error |-> "Duplicated barcodes in input"]
          ELSE None>>

\* returns <<response, errors>> for the answer (status, response) of the GET
_fetch_barcode_metadata(sample_barcode, status, response) ==
    <<response,
      IF status # 200
      THEN [barcode |-> sample_barcode,
            error |-> ToString(status) \o " from api"]
      ELSE None>>

\* returns <<response, errors>>; ids gains the template id
_fetch_survey_template(template_id, ids, status, response) ==
    LET ids2 == [account_id  |-> ids.account_id,
                 source_id   |-> ids.source_id,
                 template_id |-> template_id]
    IN  <<response,
          IF status # 200
          THEN [ids |-> ids2, error |-> ToString(status) \o " from api"]
          ELSE None>>

_build_col_name(col_name, multiselect_answer) ==
    LET a1      == replace(multiselect_answer, " ", "_")
        a2      == replace(a1, "-", "_")
        reduced == re_sub(a2)
    IN  col_name \o <<"_">> \o reduced

\* the fields of a template, group after group
RECURSIVE GroupFields(_)
GroupFields(groups) ==
    IF groups = <<>> THEN <<>>
    ELSE Head(groups).fields \o GroupFields(Tail(groups))

\* (template_id, question id) -> (choice -> column name), for the multi fields
\* of the fetched templates; a later field of the same id replaces an earlier
_construct_multiselect_map(survey_templates) ==
    LET fields(t) == GroupFields(survey_templates[t].survey_template_text.groups)
        multi(t)  == {i \in DOMAIN fields(t) : fields(t)[i].multi}
        keys      == UNION {{<<t, fields(t)[i].id>> : i \in multi(t)} :
                                t \in DOMAIN survey_templates}
        last(k)   == LET f == fields(k[1])
                         i == CHOOSE j \in multi(k[1]) :
                                  /\ f[j].id = k[2]
                                  /\ \A l \in multi(k[1]) :
                                         f[l].id = k[2] => l <= j
                     IN  f[i]
    IN  [k \in keys |->
            [choice \in Range(last(k).values) |->
                _build_col_name(last(k).shortname, choice)]]

\* ---------------------------------------------------------------- flattener
\* one <<column, 'true'>> item per selection of a multiselect answer
RECURSIVE SelectionItems(_, _)
SelectionItems(answer, specific_shortnames) ==
    IF answer = <<>> THEN <<>>
    ELSE << <<specific_shortnames[Head(answer)], STR_TRUE>> >>
         \o SelectionItems(Tail(answer), specific_shortnames)

\* the items of one submission: for qid, (shortname, answer) in response.items()
RECURSIVE ResponseItems(_, _, _)
ResponseItems(template, response, multiselect_map) ==
    IF response = <<>> THEN <<>>
    ELSE LET qid       == Head(response)[1]
             shortname == Head(response)[2]
             answer    == Head(response)[3]
             items     ==
                 IF <<template, qid>> \in DOMAIN multiselect_map
                 THEN SelectionItems(answer, multiselect_map[<<template, qid>>])
                 ELSE << <<shortname, strip(answer, STRIP_CHARS)>> >>
         IN  items \o ResponseItems(template, Tail(response), multiselect_map)

\* for survey in metadata['survey_answers'], skipping a template in collected
RECURSIVE SurveyItems(_, _, _)
SurveyItems(survey_answers, collected, multiselect_map) ==
    IF survey_answers = <<>> THEN <<>>
    ELSE LET survey   == Head(survey_answers)
             template == survey.template
         IN  IF template \in collected
             THEN SurveyItems(Tail(survey_answers), collected, multiselect_map)
             ELSE ResponseItems(template, survey.response, multiselect_map)
                  \o SurveyItems(Tail(survey_answers),
                                 collected \cup {template}, multiselect_map)

\* the loop over the submissions without the collected set
RECURSIVE SurveyItemsAll(_, _)
SurveyItemsAll(survey_answers, multiselect_map) ==
    IF survey_answers = <<>> THEN <<>>
    ELSE ResponseItems(Head(survey_answers).template,
                       Head(survey_answers).response, multiselect_map)
         \o SurveyItemsAll(Tail(survey_answers), multiselect_map)

SampleInvariants(metadata) ==
    IF metadata.source.source_type = "human"
    THEN HUMAN_SITE_INVARIANTS[metadata.sample.site]
    ELSE <<>>

\* a flattener that gathers every submission, repeated templates included
_to_pandas_series_every(metadata, multiselect_map) ==
    [name  |-> metadata.sample_barcode,
     items |-> << <<HOST_SUBJECT_ID, metadata.host_subject_id>>,
                  <<COLLECTION_TIMESTAMP, metadata.sample.datetime_collected>> >>
               \o SurveyItemsAll(metadata.survey_answers, multiselect_map)
               \o SampleInvariants(metadata)]

_to_pandas_series(metadata, multiselect_map) ==
    [name  |-> metadata.sample_barcode,
     items |-> << <<HOST_SUBJECT_ID, metadata.host_subject_id>>,
                  <<COLLECTION_TIMESTAMP, metadata.sample.datetime_collected>> >>
               \o SurveyItems(metadata.survey_answers, {}, multiselect_map)
               \o SampleInvariants(metadata)]

\* ---------------------------------------------------------------- assembler
\* {v for ms in multiselect_map.values() for v in ms.values()}
AllMultiselectColumns(multiselect_map) ==
    UNION {Range(multiselect_map[k]) : k \in DOMAIN multiselect_map}

\* df[column] = value for a column the frame lacks
AddColumns(df, new, value) ==
    [index   |-> df.index,
     columns |-> df.columns \cup new,
     at      |-> [n \in Range(df.index) |->
                    [c \in df.columns \cup new |->
                        IF c \in df.columns THEN df.at[n][c] ELSE value]]]

\* df.loc[df[column].isnull(), column] = value for the given columns
\* (df.fillna(value) when they are all the columns)
FillNull(df, columns, value) ==
    [index   |-> df.index,
     columns |-> df.columns,
     at      |-> [n \in Range(df.index) |->
                    [c \in df.columns |->
                        IF c \in columns /\ df.at[n][c] = NaN
                        THEN value ELSE df.at[n][c]]]]

\* df.replace(old, new)
ReplaceValue(df, old, new) ==
    [index   |-> df.index,
     columns |-> df.columns,
     at      |-> [n \in Range(df.index) |->
                    [c \in df.columns |->
                        IF df.at[n][c] = old THEN new ELSE df.at[n][c]]]]

\* an assembly that leaves the empty strings in place
FillFrame_keep_empty(transformed, multiselect_map) ==
    LET df0 == DataFrame(transformed)
        included_columns == df0.columns
        all_multiselect_columns == AllMultiselectColumns(multiselect_map)
        df1 == FillNull(df0, all_multiselect_columns \cap included_columns,
                        STR_FALSE)
        df2 == AddColumns(df1, all_multiselect_columns \ df1.columns, STR_FALSE)
    IN  FillNull(df2, df2.columns, MISSING)

\* _to_pandas_dataframe from pd.DataFrame(transformed) on: the multiselect
\* backfill, the unreported multiselect columns, fillna, replace("")
FillFrame(transformed, multiselect_map) ==
    LET df0 == DataFrame(transformed)
        included_columns == df0.columns
        all_multiselect_columns == AllMultiselectColumns(multiselect_map)
        df1 == FillNull(df0, all_multiselect_columns \cap included_columns,
                        STR_FALSE)
        df2 == AddColumns(df1, all_multiselect_columns \ df1.columns, STR_FALSE)
        df3 == FillNull(df2, df2.columns, MISSING)
    IN  ReplaceValue(df3, EMPTY_STR, MISSING)

\* ---------------------------------------------------------------- state
VARIABLES
    sample_barcodes,    \* the argument of retrieve_metadata
    pc,                 \* where retrieve_metadata stands
    dups,               \* the set _find_duplicates returned
    error_report,       \* the list of error entries
    todo,               \* set(sample_barcodes) not yet requested
    fetched,            \* the payloads of the successful sample fetches
    templates,          \* template id -> ids, of _fetch_observed_survey_templates
    tmpl_todo,          \* the keys of templates not yet requested
    surveys,            \* template id -> fetched structure
    errors,             \* template id -> error entry
    multiselect_map,    \* the map of _construct_multiselect_map
    transformed,        \* the Series built so far
    df,                 \* the frame retrieve_metadata returns
    shared,             \* drop_private_columns(df)
    barcode_requests,   \* GETs sent per sample barcode
    template_requests   \* GETs sent per template id

vars == <<sample_barcodes, pc, dups, error_report, todo, fetched, templates,
          tmpl_todo, surveys, errors, multiselect_map, transformed, df, shared,
          barcode_requests, template_requests>>

Init ==
    /\ sample_barcodes \in Batches
    /\ pc = "find_duplicates"
    /\ dups = {}
    /\ error_report = <<>>
    /\ todo = {}
    /\ fetched = <<>>
    /\ templates = <<>>
    /\ tmpl_todo = {}
    /\ surveys = <<>>
    /\ errors = <<>>
    /\ multiselect_map = <<>>
    /\ transformed = <<>>
    /\ df = EmptyFrame
    /\ shared = EmptyFrame
    /\ barcode_requests = [b \in Barcodes |-> 0]
    /\ template_requests = [t \in TemplateIds |-> 0]

\* the payload of a sample GET: the chosen sample under the requested barcode
Payload(sample_barcode, k) ==
    [sample_barcode  |-> sample_barcode,
     host_subject_id |-> SampleChoices[k].host_subject_id,
     account         |-> SampleChoices[k].account,
     source          |-> SampleChoices[k].source,
     sample          |-> SampleChoices[k].sample,
     survey_answers  |-> SampleChoices[k].survey_answers]

\* {s['template'] for s in bc_md['survey_answers'] if not ignored}, ignoring nothing
ObservedOf_all(bc_md) ==
    {bc_md.survey_answers[i].template : i \in DOMAIN bc_md.survey_answers}

\* {s['template'] for s in bc_md['survey_answers']
\*  if s['template'] not in TEMPLATES_TO_IGNORE}
ObservedOf(bc_md) ==
    {bc_md.survey_answers[i].template : i \in DOMAIN bc_md.survey_answers}
        \ TEMPLATES_TO_IGNORE

\* the templates dict: each observed template with the ids of the first
\* fetched sample that holds it
ObservedTemplates(sample_metadata) ==
    LET observed == UNION {ObservedOf(sample_metadata[i]) :
                               i \in DOMAIN sample_metadata}
        first(t) == CHOOSE i \in DOMAIN sample_metadata :
                        /\ t \in ObservedOf(sample_metadata[i])
                        /\ \A j \in DOMAIN sample_metadata :
                               t \in ObservedOf(sample_metadata[j]) => i <= j
    IN  [t \in observed |->
            [account_id |-> sample_metadata[first(t)].account.id,
             source_id  |-> sample_metadata[first(t)].source.id]]

\* ---------------------------------------------------------------- actions
\* retrieve_metadata: the duplicate check, then set(sample_barcodes)
FindDuplicates ==
    /\ pc = "find_duplicates"
    /\ LET r == _find_duplicates(sample_barcodes)
       IN  /\ dups' = r[1]
           /\ error_report' = IF r[2] # None
                              THEN Append(error_report, r[2])
                              ELSE error_report
    /\ todo' = Range(sample_barcodes)
    /\ pc' = "fetch_barcodes"
    /\ UNCHANGED <<sample_barcodes, fetched, templates, tmpl_todo, surveys,
                   errors, multiselect_map, transformed, df, shared,
                   barcode_requests, template_requests>>

\* one round of the loop over set(sample_barcodes); a set has no defined order
FetchBarcode ==
    /\ pc = "fetch_barcodes"
    /\ \E sample_barcode \in todo, status \in StatusCodes,
          k \in DOMAIN SampleChoices :
         LET response == IF status = 200 THEN Payload(sample_barcode, k)
                         ELSE None
             r == _fetch_barcode_metadata(sample_barcode, status, response)
         IN  \* a failed GET carries no payload: one choice of k stands for all
             /\ status # 200 => k = 1
             /\ IF r[2] # None
                THEN /\ error_report' = Append(error_report, r[2])
                     /\ fetched' = fetched
                ELSE /\ fetched' = Append(fetched, r[1])
                     /\ error_report' = error_report
             /\ todo' = todo \ {sample_barcode}
             /\ barcode_requests' =
                    [barcode_requests EXCEPT ![sample_barcode] = @ + 1]
    /\ UNCHANGED <<sample_barcodes, pc, dups, templates, tmpl_todo, surveys,
                   errors, multiselect_map, transformed, df, shared,
                   template_requests>>

\* the loop is over, nothing fetched: the terminal entry is not added
CheckFetched_no_terminal ==
    /\ pc = "fetch_barcodes"
    /\ todo = {}
    /\ IF Len(fetched) = 0
       THEN /\ pc' = "done"
            /\ UNCHANGED <<templates, tmpl_todo, error_report>>
       ELSE /\ templates' = ObservedTemplates(fetched)
            /\ tmpl_todo' = DOMAIN templates'
            /\ pc' = "fetch_templates"
            /\ error_report' = error_report
    /\ df' = EmptyFrame
    /\ UNCHANGED <<sample_barcodes, dups, todo, fetched, surveys, errors,
                   multiselect_map, transformed, shared, barcode_requests,
                   template_requests>>

\* the loop is over: nothing fetched ends the run; otherwise
\* _fetch_observed_survey_templates collects the templates to request
CheckFetched ==
    /\ pc = "fetch_barcodes"
    /\ todo = {}
    /\ IF Len(fetched) = 0
       THEN /\ error_report' =
                   Append(error_report, [error |-> "No metadata was obtained"])
            /\ pc' = "done"
            /\ UNCHANGED <<templates, tmpl_todo>>
       ELSE /\ templates' = ObservedTemplates(fetched)
            /\ tmpl_todo' = DOMAIN templates'
            /\ pc' = "fetch_templates"
            /\ error_report' = error_report
    /\ df' = EmptyFrame
    /\ UNCHANGED <<sample_barcodes, dups, todo, fetched, surveys, errors,
                   multiselect_map, transformed, shared, barcode_requests,
                   template_requests>>

\* a template request that is sent again after a failure
FetchSurveyTemplate_retry ==
    /\ pc = "fetch_templates"
    /\ \E template_id \in tmpl_todo, status \in StatusCodes :
         LET r == _fetch_survey_template(template_id, templates[template_id],
                                         status, SurveyTemplates[template_id])
         IN  /\ IF r[2] # None
                THEN /\ errors' = errors @@ (template_id :> r[2])
                     /\ surveys' = surveys
                     /\ tmpl_todo' = tmpl_todo
                ELSE /\ surveys' = surveys @@ (template_id :> r[1])
                     /\ errors' = errors
                     /\ tmpl_todo' = tmpl_todo \ {template_id}
             /\ template_requests' =
                    [template_requests EXCEPT ![template_id] = @ + 1]
    /\ UNCHANGED <<sample_barcodes, pc, dups, error_report, todo, fetched,
                   templates, multiselect_map, transformed, df, shared,
                   barcode_requests>>

\* one round of the loop over templates.items()
FetchSurveyTemplate ==
    /\ pc = "fetch_templates"
    /\ \E template_id \in tmpl_todo, status \in StatusCodes :
         LET r == _fetch_survey_template(template_id, templates[template_id],
                                         status, SurveyTemplates[template_id])
         IN  /\ IF r[2] # None
                THEN /\ errors' = errors @@ (template_id :> r[2])
                     /\ surveys' = surveys
                ELSE /\ surveys' = surveys @@ (template_id :> r[1])
                     /\ errors' = errors
             /\ tmpl_todo' = tmpl_todo \ {template_id}
             /\ template_requests' =
                    [template_requests EXCEPT ![template_id] = @ + 1]
    /\ UNCHANGED <<sample_barcodes, pc, dups, error_report, todo, fetched,
                   templates, multiselect_map, transformed, df, shared,
                   barcode_requests>>

\* the template errors are reported and the samples are flattened all the same
FinishTemplates_partial ==
    /\ pc = "fetch_templates"
    /\ tmpl_todo = {}
    /\ error_report' = IF DOMAIN errors # {}
                       THEN Append(error_report, errors)
                       ELSE error_report
    /\ multiselect_map' = _construct_multiselect_map(surveys)
    /\ pc' = "flatten"
    /\ UNCHANGED <<sample_barcodes, dups, todo, fetched, templates, tmpl_todo,
                   surveys, errors, transformed, df, shared, barcode_requests,
                   template_requests>>

\* _fetch_observed_survey_templates returns (surveys, errors if errors else
\* None); with errors retrieve_metadata reports them and keeps the empty frame,
\* without it enters _to_pandas_dataframe, which builds the multiselect map
FinishTemplates ==
    /\ pc = "fetch_templates"
    /\ tmpl_todo = {}
    /\ IF DOMAIN errors # {}
       THEN /\ error_report' = Append(error_report, errors)
            /\ pc' = "done"
            /\ multiselect_map' = multiselect_map
       ELSE /\ multiselect_map' = _construct_multiselect_map(surveys)
            /\ pc' = "flatten"
            /\ error_report' = error_report
    /\ UNCHANGED <<sample_barcodes, dups, todo, fetched, templates, tmpl_todo,
                   surveys, errors, transformed, df, shared, barcode_requests,
                   template_requests>>

\* one round of the loop over metadatas
ToPandasSeries ==
    /\ pc = "flatten"
    /\ Len(transformed) < Len(fetched)
    /\ transformed' =
           Append(transformed,
                  _to_pandas_series(fetched[Len(transformed) + 1],
                                    multiselect_map))
    /\ UNCHANGED <<sample_barcodes, pc, dups, error_report, todo, fetched,
                   templates, tmpl_todo, surveys, errors, multiselect_map, df,
                   shared, barcode_requests, template_requests>>

\* the frame is assembled and returned with the error report
ToPandasDataframe ==
    /\ pc = "flatten"
    /\ Len(transformed) = Len(fetched)
    /\ df' = FillFrame(transformed, multiselect_map)
    /\ pc' = "done"
    /\ UNCHANGED <<sample_barcodes, dups, error_report, todo, fetched,
                   templates, tmpl_todo, surveys, errors, multiselect_map,
                   transformed, shared, barcode_requests, template_requests>>

\* drop_private_columns on the frame retrieve_metadata returned
DropPrivateColumns ==
    /\ pc = "done"
    /\ shared' = drop_private_columns(df)
    /\ pc' = "shared"
    /\ UNCHANGED <<sample_barcodes, dups, error_report, todo, fetched,
                   templates, tmpl_todo, surveys, errors, multiselect_map,
                   transformed, df, barcode_requests, template_requests>>

Next ==
    \/ FindDuplicates
    \/ FetchBarcode
    \/ CheckFetched
    \/ FetchSurveyTemplate
    \/ FinishTemplates
    \/ ToPandasSeries
    \/ ToPandasDataframe
    \/ DropPrivateColumns

Spec == Init /\ [][Next]_vars

\* ---------------------------------------------------------------- properties
Returned == pc \in {"done", "shared"}

\* a private column: the pm_ prefix or a denylisted name, case-insensitively
IsPrivate(c) ==
    \/ (Len(c) >= 3 /\ SubSeq(lower(c), 1, 3) = PM_PREFIX)
    \/ \E i \in DOMAIN EBI_REMOVE : lower(EBI_REMOVE[i]) = lower(c)

\* how often an identifier occurs in the batch
Multiplicity(b) == Len(SelectSeq(sample_barcodes, LAMBDA x : x = b))

\* the messages of a failed GET
ApiErrors == {ToString(s) \o " from api" : s \in StatusCodes \ {200}}

\* the entries of the report that are records with an error message: all of
\* them but the template errors, which close the report when there are any
MessageEntries ==
    IF Returned /\ DOMAIN errors # {}
    THEN SubSeq(error_report, 1, Len(error_report) - 1)
    ELSE error_report

\* the submissions that are the first of their template
RECURSIVE KeepFirst(_, _)
KeepFirst(survey_answers, seen) ==
    IF survey_answers = <<>> THEN <<>>
    ELSE IF Head(survey_answers).template \in seen
         THEN KeepFirst(Tail(survey_answers), seen)
         ELSE <<Head(survey_answers)>>
              \o KeepFirst(Tail(survey_answers),
                           seen \cup {Head(survey_answers).template})

HasRepeatedTemplate(metadata) ==
    \E i, j \in DOMAIN metadata.survey_answers :
        /\ i < j
        /\ metadata.survey_answers[i].template
               = metadata.survey_answers[j].template

\* the sample's processed submission of template k[1] selected choice under
\* question k[2]
Selected(metadata, k, choice) ==
    LET first == KeepFirst(metadata.survey_answers, {})
    IN  \E i \in DOMAIN first :
            /\ first[i].template = k[1]
            /\ \E q \in DOMAIN first[i].response :
                   /\ first[i].response[q][1] = k[2]
                   /\ \E s \in DOMAIN first[i].response[q][3] :
                          first[i].response[q][3][s] = choice

\* --- C1 -------------------------------------------------------------------
\* C1 as stated: the table retrieve_metadata returns holds no private column
\* (no column whose lower-cased name starts with pm_ or is in EBI_REMOVE).
C1_ReturnedTableRedacted ==
    Returned => \A c \in df.columns : ~IsPrivate(c)

\* C1 amended: retrieve_metadata returns the table unredacted; it is
\* drop_private_columns, applied to the returned table, that removes exactly
\* the private columns and keeps every other column and every row.
C1_RedactedByDropPrivateColumns ==
    pc = "shared" =>
        /\ \A c \in shared.columns : ~IsPrivate(c)
        /\ shared.columns = {c \in df.columns : ~IsPrivate(c)}
        /\ shared.index = df.index
        /\ \A n \in Range(df.index) : \A c \in shared.columns :
               shared.at[n][c] = df.at[n][c]

\* a returned table with a denylisted and a pm_ column went through the drop
C1_Witness ==
    /\ pc = "shared"
    /\ shared.index # <<>>
    /\ \E c \in df.columns : startswith(lower(c), PM_PREFIX)
    /\ \E c \in df.columns : lower(c) = lower(EBI_REMOVE[20])

\* --- C2 -------------------------------------------------------------------
\* C2: the mapper never builds a map in which two distinct choices of one
\* multi-select field share a column name (it raises instead).
C2_NoSharedColumnName ==
    \A k \in DOMAIN multiselect_map :
        \A c1, c2 \in DOMAIN multiselect_map[k] :
            c1 # c2 => multiselect_map[k][c1] # multiselect_map[k][c2]

\* --- C3 -------------------------------------------------------------------
\* C3 as stated: with a sample fetched and a template fetch failed, every
\* fetched sample is still a row of the returned table.
C3_RowsDespiteTemplateError ==
    (Returned /\ fetched # <<>> /\ DOMAIN errors # {}) =>
        /\ Len(df.index) = Len(fetched)
        /\ \A i \in DOMAIN fetched :
               fetched[i].sample_barcode \in Range(df.index)

\* C3 amended: a template fetch failure is reported but empties the table: the
\* report ends with one entry that maps each failed template id to
\* {ids, error: '<status> from api'}, no map is built, no sample is flattened
\* and the returned table is empty.
C3_TemplateErrorEmptiesTable ==
    (Returned /\ fetched # <<>> /\ DOMAIN errors # {}) =>
        /\ Len(error_report) >= 1
        /\ error_report[Len(error_report)] = errors
        /\ \A t \in DOMAIN errors :
               /\ errors[t].error \in ApiErrors
               /\ errors[t].ids.template_id = t
               /\ template_requests[t] = 1
               /\ t \notin DOMAIN surveys
        /\ multiselect_map = <<>>
        /\ transformed = <<>>
        /\ df = EmptyFrame

\* two samples fetched, one template failed and another one fetched
C3_Witness ==
    /\ pc = "done"
    /\ Len(fetched) = 2
    /\ DOMAIN errors # {}
    /\ DOMAIN surveys # {}

\* --- C4 -------------------------------------------------------------------
\* C4: in the assembled table every (template, question, choice) entry of the
\* map has its column, and the cell of a row is 'true' when the sample's
\* processed submission selected the choice and 'false' otherwise.
C4_MultiselectCells ==
    (pc = "done" /\ transformed # <<>>) =>
        \A i \in DOMAIN fetched : \A k \in DOMAIN multiselect_map :
            \A choice \in DOMAIN multiselect_map[k] :
                LET column == multiselect_map[k][choice]
                    n      == fetched[i].sample_barcode
                IN  /\ column \in df.columns
                    /\ df.at[n][column] =
                           IF Selected(fetched[i], k, choice)
                           THEN STR_TRUE ELSE STR_FALSE

\* --- C5 -------------------------------------------------------------------
\* C5: the table has every column of every flattened record, and no cell is
\* null or empty: a cell is the record's value, or 'Missing: not provided'
\* when the record has no value, an empty one or a null one, or 'false' when
\* the record lacks a multiselect column.
C5_NoNullCells ==
    (pc = "done" /\ transformed # <<>>) =>
        /\ df.index = [i \in DOMAIN transformed |-> transformed[i].name]
        /\ \A i \in DOMAIN transformed : Labels(transformed[i]) \subseteq df.columns
        /\ \A i \in DOMAIN transformed : \A c \in df.columns :
               LET v    == df.at[transformed[i].name][c]
                   have == c \in Labels(transformed[i])
                   own  == ValueOf(transformed[i], c)
               IN  /\ v # NaN
                   /\ v # EMPTY_STR
                   /\ (have /\ own \notin {NaN, EMPTY_STR}) => v = own
                   /\ (have /\ own \in {NaN, EMPTY_STR}) => v = MISSING
                   /\ ~have =>
                         v = IF c \in AllMultiselectColumns(multiselect_map)
                             THEN STR_FALSE ELSE MISSING

\* two rows: a column only one record has is filled with the sentinel in the
\* other, an unreported multiselect column with 'false', and an empty
\* free-text answer became the sentinel
C5_Witness ==
    /\ pc = "done"
    /\ Len(transformed) = 2
    /\ \E c \in Labels(transformed[1]) \ Labels(transformed[2]) :
           df.at[transformed[2].name][c] = MISSING
    /\ \E c \in Labels(transformed[1]) \ Labels(transformed[2]) :
           df.at[transformed[2].name][c] = STR_FALSE
    /\ \E i \in DOMAIN transformed : \E c \in Labels(transformed[i]) :
           /\ ValueOf(transformed[i], c) = EMPTY_STR
           /\ df.at[transformed[i].name][c] = MISSING

\* --- C6 -------------------------------------------------------------------
\* C6: the duplicate check returns exactly the identifiers that occur more
\* than once, its entry is in the report exactly when there are any, and every
\* distinct identifier of the batch is requested nevertheless.
C6_DuplicatesExactAndDiagnostic ==
    /\ pc # "find_duplicates" =>
           /\ dups = {b \in Barcodes : Multiplicity(b) > 1}
           /\ dups # {} <=>
                  \E i \in DOMAIN MessageEntries :
                      MessageEntries[i].error = "Duplicated barcodes in input"
           /\ \A i \in DOMAIN MessageEntries :
                  MessageEntries[i].error = "Duplicated barcodes in input" =>
                      /\ i = 1
                      /\ MessageEntries[i].barcode = dups
    /\ Returned =>
           \A b \in Barcodes :
               barcode_requests[b] = IF Multiplicity(b) >= 1 THEN 1 ELSE 0

\* a batch with a repeated and an unrepeated identifier, both fetched
C6_Witness ==
    /\ pc = "done"
    /\ dups # {}
    /\ Range(sample_barcodes) \ dups # {}
    /\ Len(fetched) = 2

\* --- C7 -------------------------------------------------------------------
\* C7: when no sample fetch succeeds the returned table is empty, the report
\* holds one '<status> from api' entry per requested barcode and ends with
\* 'No metadata was obtained', and no template is requested and no sample
\* flattened; when a sample fetch succeeds the terminal entry is absent.
C7_EmptyResult ==
    Returned =>
        IF fetched = <<>>
        THEN /\ df = EmptyFrame
             /\ Len(error_report) >= 1
             /\ error_report[Len(error_report)]
                    = [error |-> "No metadata was obtained"]
             /\ \A b \in Range(sample_barcodes) :
                    Cardinality({i \in DOMAIN error_report :
                        /\ error_report[i].error \in ApiErrors
                        /\ error_report[i].barcode = b}) = 1
             /\ Len(error_report) = Cardinality(Range(sample_barcodes)) + 1
                                    + (IF dups # {} THEN 1 ELSE 0)
             /\ \A t \in TemplateIds : template_requests[t] = 0
             /\ transformed = <<>>
        ELSE \A i \in DOMAIN MessageEntries :
                 MessageEntries[i].error # "No metadata was obtained"

\* two distinct barcodes requested, both fetches failed
C7_Witness ==
    /\ pc = "done"
    /\ fetched = <<>>
    /\ Cardinality(Range(sample_barcodes)) = 2
    /\ \A b \in Range(sample_barcodes) : barcode_requests[b] = 1

\* --- C8 -------------------------------------------------------------------
\* C8: a flattened record is the record of the sample with every submission
\* but the first of each template removed, and flattening adds nothing to the
\* error report.
C8_FirstSubmissionWins ==
    /\ \A i \in DOMAIN transformed :
           LET first == [fetched[i] EXCEPT
                            !.survey_answers = KeepFirst(@, {})]
           IN  transformed[i] = _to_pandas_series(first, multiselect_map)
    /\ transformed # <<>> =>
           Len(error_report) = Cardinality(Range(sample_barcodes)) - Len(fetched)
                               + (IF dups # {} THEN 1 ELSE 0)

\* a flattened sample that holds one template twice
C8_Witness ==
    \E i \in DOMAIN transformed : HasRepeatedTemplate(fetched[i])

\* --- C9 -------------------------------------------------------------------
WithoutIgnored(metadata) ==
    [metadata EXCEPT !.survey_answers =
        SelectSeq(@, LAMBDA s : s.template \notin TEMPLATES_TO_IGNORE)]

HasIgnored(metadata) ==
    \E j \in DOMAIN metadata.survey_answers :
        metadata.survey_answers[j].template \in TEMPLATES_TO_IGNORE

\* C9 as stated: an ignored template is never requested, has no error entry,
\* and its submissions add nothing to a flattened record.
C9_IgnoredContributesNothing ==
    /\ \A t \in TEMPLATES_TO_IGNORE :
           template_requests[t] = 0 /\ t \notin DOMAIN errors
    /\ \A i \in DOMAIN transformed :
           transformed[i] =
               _to_pandas_series(WithoutIgnored(fetched[i]), multiselect_map)

\* C9 amended: an ignored template is never requested, has no error entry and
\* no entry in the multiselect map; the answers of its submissions are still
\* flattened as free-text columns under their short names.
C9_IgnoredNotFetchedButFlattened ==
    /\ \A t \in TEMPLATES_TO_IGNORE :
           /\ template_requests[t] = 0
           /\ t \notin DOMAIN templates
           /\ t \notin DOMAIN errors
           /\ t \notin DOMAIN surveys
           /\ \A k \in DOMAIN multiselect_map : k[1] # t
    /\ \A i \in DOMAIN transformed :
           LET first == KeepFirst(fetched[i].survey_answers, {})
           IN  \A j \in DOMAIN first :
                   first[j].template \in TEMPLATES_TO_IGNORE =>
                       \A q \in DOMAIN first[j].response :
                           /\ first[j].response[q][2] \in Labels(transformed[i])
                           /\ ValueOf(transformed[i], first[j].response[q][2])
                                  = strip(first[j].response[q][3], STRIP_CHARS)
                           /\ pc = "done" =>
                                  first[j].response[q][2] \in df.columns

\* a table was returned for a sample that holds an ignored template
C9_Witness ==
    /\ pc = "done"
    /\ df.index # <<>>
    /\ \E i \in DOMAIN fetched : HasIgnored(fetched[i])

\* --- C10 ------------------------------------------------------------------
Referenced(t) ==
    \E i \in DOMAIN fetched : \E j \in DOMAIN fetched[i].survey_answers :
        fetched[i].survey_answers[j].template = t

\* C10: no template and no sample is requested twice; once the template loop
\* is over every referenced template that is not ignored was requested exactly
\* once and no other was requested; and a sample is flattened only after all
\* template requests, with the multiselect map built from their answers.
C10_TemplatesFetchedOnceBeforeFlatten ==
    /\ \A t \in TemplateIds : template_requests[t] <= 1
    /\ \A b \in Barcodes : barcode_requests[b] <= 1
    /\ \A t \in TemplateIds :
           template_requests[t] = 1 =>
               t \notin TEMPLATES_TO_IGNORE /\ Referenced(t)
    /\ (pc \in {"flatten", "done", "shared"} /\ fetched # <<>>) =>
           \A t \in TemplateIds :
               (t \notin TEMPLATES_TO_IGNORE /\ Referenced(t)) =>
                   template_requests[t] = 1
    /\ transformed # <<>> =>
           /\ tmpl_todo = {}
           /\ DOMAIN surveys = DOMAIN templates
           /\ \A t \in DOMAIN surveys : template_requests[t] = 1
           /\ multiselect_map = _construct_multiselect_map(surveys)

\* two flattened samples that both hold template 1, requested once
C10_Witness ==
    /\ pc = "done"
    /\ Len(transformed) = 2
    /\ \A i \in DOMAIN fetched :
           \E j \in DOMAIN fetched[i].survey_answers :
               fetched[i].survey_answers[j].template = 1
    /\ template_requests[1] = 1

====
